---- MODULE Spec2Model ----
(***************************************************************************)
(* Box-scanning tracker: the duplicate-scan resolver of                    *)
(* server/controllers/scanController.js (scanBox, deleteScan,              *)
(* getScansWithDuplicates), the React client that drives it                *)
(* (ScanInterface.handleScan, App.handleScan, App.handleDeleteScan,        *)
(* App.loadInitialData) and the record store behind them.                  *)
(*                                                                         *)
(* server/models/dataStore.js and the tail of scanBox ("Rest of the scan   *)
(* logic remains same...") are not part of the sources; they are modelled  *)
(* from the specification and are marked so in the map of definitions.     *)
(* The controller's deleteScan calls the imported dataStore.deleteScan     *)
(* (the import and the export share one name in the source file).          *)
(*                                                                         *)
(* Further specifications cover the pending queue (process-pending and     *)
(* the manifest upload), a scan retried after a storage error, the App's   *)
(* overlapping requests, and the runs of server/routes/deploy-fix.js.      *)
(***************************************************************************)
EXTENDS Integers, Sequences, FiniteSets, TLC

-----------------------------------------------------------------------------
(* Bounds of the model *)

MaxNow == 2          \* the clock runs over ticks 0..MaxNow
TicksPerDay == 2     \* clock ticks in one calendar day
MaxId == 2           \* at most MaxId records are ever created
MaxCount == 2        \* duplicateCount is not pushed beyond MaxCount
MaxRuns == 2         \* runs of the deployment fixer
MaxInFlight == 2     \* requests of the App that are under way at once
MaxFailures == 1     \* file-system calls of the fixer that fail

-----------------------------------------------------------------------------
(* Inputs *)

\* Box identifiers as typed by the operator: sequences of characters.
RawBoxIds == { <<>>, <<" ">>, <<"A">>, <<" ", "A", " ">>, <<"B">> }

\* Box identifiers sent by the racing requests.
RaceBoxIds == { <<"A">>, <<" ", "A", " ">>, <<"B">> }

Dests == {"D1", "D2"}
NoDest == "none"
NoTime == 0 - 1
NoRow == [id |-> 0, boxId |-> <<>>, timestamp |-> NoTime, destination |-> NoDest,
          finalStatus |-> "", isDuplicate |-> FALSE, duplicateCount |-> 0,
          lastScanned |-> NoTime]
NoCounts == [d \in Dests |-> -1]

\* The dispatch manifest the store holds: box A is expected at D1, box B is
\* not in the manifest.
Manifest == [b \in {<<"A">>} |-> "D1"]

\* The manifest after a later upload: box B is expected too.
ManifestWithB == [b \in {<<"A">>, <<"B">>} |-> IF b = <<"A">> THEN "D1" ELSE "D2"]
Manifests == {Manifest, ManifestWithB}

VARIABLES
  scans,              \* record store: the list of ScanRecords
  pending,            \* record store: the list of pending entries
  dispatch,           \* record store: the dispatch manifest
  counts,             \* Destination Aggregator: destination -> count
  nextId,             \* next record identifier
  now,                \* wall clock, in ticks
  destinationCounts,  \* App state
  pendingCount,       \* App state
  clientScans,        \* App state: the list shown in the history table
  status,             \* ScanInterface state: the status line
  lastResult,         \* the server's response to the client's last request
  inflight,           \* racing requests: request and scans read, per process
  resp                \* racing requests: response, per process

VARIABLES
  calls,              \* processPending requests, per process
  attempt,            \* a scan command that failed and is being retried
  net,                \* responses on their way to the App
  files,              \* deploy-fix: the files under the root directory
  cli                 \* deploy-fix: the run of the command line

vars == <<scans, pending, dispatch, counts, nextId, now, destinationCounts,
          pendingCount, clientScans, status, lastResult,
          inflight, resp, calls, attempt, net, files, cli>>

batchVars == <<calls>>
retryVars == <<attempt>>
netVars == <<net>>
deployVars == <<files, cli>>

serverVars == <<scans, pending, dispatch, counts, nextId>>
clientVars == <<destinationCounts, pendingCount, clientScans, status>>
raceVars == <<inflight, resp>>
scannerVars == <<serverVars, now, clientVars, lastResult, raceVars>>

Procs == {1, 2}
NoCall == [pc |-> "idle", snapshot |-> <<>>, outcome |-> "", pendingCount |-> 0 - 1]
NoReq == [busy |-> FALSE, raw |-> <<>>, allow |-> FALSE, read |-> <<>>]


-----------------------------------------------------------------------------
(* Pure helpers *)

\* String.prototype.trim on a sequence of characters.
RECURSIVE TrimLeft(_)
TrimLeft(s) == IF s # <<>> /\ Head(s) = " " THEN TrimLeft(Tail(s)) ELSE s

RECURSIVE TrimRight(_)
TrimRight(s) ==
  IF s # <<>> /\ s[Len(s)] = " " THEN TrimRight(SubSeq(s, 1, Len(s) - 1)) ELSE s

Trim(s) == TrimRight(TrimLeft(s))

\* new Date(t).toDateString(): the calendar day a tick falls on.
toDateString(t) == t \div TicksPerDay

\* Variant: the day filter is left out.
todayScans_anyDay(sc, t) == sc

\* scans.filter(scan => new Date(scan.timestamp).toDateString() === today)
todayScans(sc, t) ==
  SelectSeq(sc, LAMBDA scan : toDateString(scan.timestamp) = toDateString(t))

\* todayScans.find(scan => scan.boxId === boxIdTrimmed): the first match, NoRow if none.
existingScan(sc, box, t) ==
  LET today == SelectSeq(todayScans(sc, t), LAMBDA scan : scan.boxId = box)
  IN  IF today = <<>> THEN NoRow ELSE Head(today)

\* Variant: existingScan.duplicateCount || 1 + 1, the sum binding tighter.
updatedScan_precedence(rec, t) ==
  [rec EXCEPT !.isDuplicate = TRUE,
              !.duplicateCount = IF rec.duplicateCount = 0 THEN 1 + 1 ELSE rec.duplicateCount,
              !.lastScanned = t]

\* { ...existingScan, isDuplicate: true,
\*   duplicateCount: (existingScan.duplicateCount || 1) + 1, lastScanned: new Date() }
updatedScan(rec, t) ==
  [rec EXCEPT !.isDuplicate = TRUE,
              !.duplicateCount = (IF rec.duplicateCount = 0 THEN 1 ELSE rec.duplicateCount) + 1,
              !.lastScanned = t]

-----------------------------------------------------------------------------
(* Record store and aggregator: server/models/dataStore.js is not among    *)
(* the sources; these follow the specification's Record Store and          *)
(* Destination Aggregator contracts.                                       *)

\* addScan(record): the record joins the list.
addScan(sc, rec) == Append(sc, rec)

\* updateScan(id, record): the record with that id is replaced.
updateScan(sc, id, rec) ==
  [i \in 1..Len(sc) |-> IF sc[i].id = id THEN rec ELSE sc[i]]

\* deleteScan(id) of the store answers whether a record with that id was held.
storeHasScan(sc, id) == \E i \in 1..Len(sc) : sc[i].id = id

storeGetScan(sc, id) ==
  LET hit == SelectSeq(sc, LAMBDA r : r.id = id)
  IN  IF hit = <<>> THEN NoRow ELSE Head(hit)

addPendingScan(pe, entry) == Append(pe, entry)

\* classify(boxId): the dispatch-match policy giving a new record's finalStatus.
classify(disp, box) ==
  IF box \in DOMAIN disp /\ disp[box] # NoDest THEN "TRUE" ELSE "PENDING"

destinationOf(disp, box) ==
  IF box \in DOMAIN disp THEN disp[box] ELSE NoDest

\* A finalized record counts toward the destination aggregates.
Finalized(rec) == rec.finalStatus # "PENDING"

\* Destination Aggregator apply(destination, delta).
apply(cnt, dest, delta) ==
  IF dest \in Dests THEN [cnt EXCEPT ![dest] = cnt[dest] + delta] ELSE cnt

ZeroCounts == [d \in Dests |-> 0]

\* The server's state as one value.
Server(sc, pe, cnt, nid) ==
  [scans |-> sc, pending |-> pe, counts |-> cnt, nextId |-> nid]

\* deleteScan(id) of the store: the record leaves the list and, when it was
\* finalized, the aggregator's count of its destination goes down by one.
storeDeleteScan(S, id) ==
  LET rec == storeGetScan(S.scans, id)
      cnt == IF rec.id # 0 /\ Finalized(rec)
             THEN apply(S.counts, rec.destination, -1) ELSE S.counts
  IN  Server(SelectSeq(S.scans, LAMBDA r : r.id # id), S.pending, cnt, S.nextId)

\* The ids of the entries of a list.
idsOf(es) == {es[i].id : i \in 1..Len(es)}

\* The pending entries a reconciliation finalizes: those whose box
\* identifier matches a DispatchRecord.
reconciled(es, disp) == SelectSeq(es, LAMBDA e : classify(disp, e.boxId) = "TRUE")

\* The aggregator after one apply(destination, +1) per finalized entry.
RECURSIVE countsAfter(_, _, _)
countsAfter(cnt, es, disp) ==
  IF es = <<>> THEN cnt
  ELSE countsAfter(apply(cnt, destinationOf(disp, Head(es).boxId), 1), Tail(es), disp)

\* Variant: every entry read is finalized, matched or not.
processAll_drainsAll(S, disp, read) ==
  LET done == read
      ids == idsOf(done)
  IN  Server([i \in 1..Len(S.scans) |->
                IF S.scans[i].id \in ids
                THEN [S.scans[i] EXCEPT !.finalStatus = "TRUE",
                        !.destination = destinationOf(disp, S.scans[i].boxId)]
                ELSE S.scans[i]],
             SelectSeq(S.pending, LAMBDA e : e.id \notin ids),
             countsAfter(S.counts, done, disp),
             S.nextId)

\* processAll over the entries read: each match is removed from the queue,
\* its record gets finalStatus and destination, and the aggregator counts
\* it; the other entries stay queued in their order.
processAll(S, disp, read) ==
  LET done == reconciled(read, disp)
      ids == idsOf(done)
  IN  Server([i \in 1..Len(S.scans) |->
                IF S.scans[i].id \in ids
                THEN [S.scans[i] EXCEPT !.finalStatus = "TRUE",
                        !.destination = destinationOf(disp, S.scans[i].boxId)]
                ELSE S.scans[i]],
             SelectSeq(S.pending, LAMBDA e : e.id \notin ids),
             countsAfter(S.counts, done, disp),
             S.nextId)

\* How often each record has been finalized, after one more reconciliation.
timesAfter(times, S, disp, read) ==
  LET ids == idsOf(read) \ idsOf(processAll(S, disp, read).pending)
  IN  [i \in DOMAIN times |-> IF i \in ids THEN times[i] + 1 ELSE times[i]]

\* Variant: a call enters whatever the other calls do.
mayEnter_reentrant(run, p) == TRUE

\* processAll is not re-entrant: a call enters only while no other runs.
mayEnter(run, p) == \A q \in Procs \ {p} : run[q].pc # "running"

-----------------------------------------------------------------------------
(* Responses of the server *)

Response(kind, success, isDuplicate, isPending, row, duplicateData, cnt) ==
  [kind |-> kind, success |-> success, isDuplicate |-> isDuplicate,
   isPending |-> isPending, row |-> row, duplicateData |-> duplicateData,
   counts |-> cnt]

\* res.json({ success: false, isDuplicate: true, message, duplicateData: existingScan })
RejectedResponse(ex) ==
  Response("RejectedDuplicate", FALSE, TRUE, FALSE, NoRow, ex, NoCounts)

\* res.json({ success: true, isDuplicate: true, message, row: updatedScan })
AcceptedResponse(up) ==
  Response("AcceptedDuplicate", TRUE, TRUE, FALSE, up, NoRow, NoCounts)

NewResponse(rec, cnt) ==
  Response("New", TRUE, FALSE, rec.finalStatus = "PENDING", rec, NoRow, cnt)

ValidationResponse ==
  Response("ValidationError", FALSE, FALSE, FALSE, NoRow, NoRow, NoCounts)

NotFoundResponse ==
  Response("NotFound", FALSE, FALSE, FALSE, NoRow, NoRow, NoCounts)

DeletedResponse ==
  Response("Deleted", TRUE, FALSE, FALSE, NoRow, NoRow, NoCounts)

NoResp == Response("None", FALSE, FALSE, FALSE, NoRow, NoRow, NoCounts)

\* The result of a handler: the server's state after it, and its response.
Result(S, res) ==
  [scans |-> S.scans, pending |-> S.pending, counts |-> S.counts,
   nextId |-> S.nextId, res |-> res]

-----------------------------------------------------------------------------
(* scanController.js *)

\* The part of scanBox the source elides ("Rest of the scan logic remains
\* same..."): validation of the identifier and the creation of a record.
scanBoxRest(S, disp, box, t) ==
  IF box = <<>>
  THEN Result(S, ValidationResponse)
  ELSE
    LET rec == [id |-> S.nextId, boxId |-> box, timestamp |-> t,
                destination |-> destinationOf(disp, box),
                finalStatus |-> classify(disp, box),
                isDuplicate |-> FALSE, duplicateCount |-> 1,
                lastScanned |-> NoTime]
        cnt == IF Finalized(rec) THEN apply(S.counts, rec.destination, 1)
               ELSE S.counts
        pe  == IF Finalized(rec) THEN S.pending
               ELSE addPendingScan(S.pending,
                       [id |-> rec.id, boxId |-> box, timestamp |-> t])
    IN  Result(Server(addScan(S.scans, rec), pe, cnt, S.nextId + 1),
               NewResponse(rec, cnt))

\* Variant: the lookup uses the identifier as sent, not trimmed.
scanBox_findsRaw(read, S, disp, raw, allow, t) ==
  LET boxIdTrimmed == Trim(raw)
      ex == existingScan(read, raw, t)
  IN  IF ex.id # 0 /\ ~allow
      THEN Result(S, RejectedResponse(ex))
      ELSE IF ex.id # 0 /\ allow
      THEN LET up == updatedScan(ex, t)
           IN  Result(Server(updateScan(S.scans, ex.id, up), S.pending,
                             S.counts, S.nextId),
                      AcceptedResponse(up))
      ELSE scanBoxRest(S, disp, boxIdTrimmed, t)

\* Variant: allowDuplicate is not consulted, every rescan is recorded.
scanBox_alwaysAllows(read, S, disp, raw, allow, t) ==
  LET boxIdTrimmed == Trim(raw)
      ex == existingScan(read, boxIdTrimmed, t)
  IN  IF ex.id # 0
      THEN LET up == updatedScan(ex, t)
           IN  Result(Server(updateScan(S.scans, ex.id, up), S.pending,
                             S.counts, S.nextId),
                      AcceptedResponse(up))
      ELSE scanBoxRest(S, disp, boxIdTrimmed, t)

\* Variant: an accepted duplicate is also counted by the aggregator and the
\* response carries the new counts.
scanBox_countsDuplicates(read, S, disp, raw, allow, t) ==
  LET boxIdTrimmed == Trim(raw)
      ex == existingScan(read, boxIdTrimmed, t)
  IN  IF ex.id # 0 /\ ~allow
      THEN Result(S, RejectedResponse(ex))
      ELSE IF ex.id # 0 /\ allow
      THEN LET up == updatedScan(ex, t)
               cnt == apply(S.counts, up.destination, 1)
           IN  Result(Server(updateScan(S.scans, ex.id, up), S.pending,
                             cnt, S.nextId),
                      Response("AcceptedDuplicate", TRUE, TRUE, FALSE, up, NoRow, cnt))
      ELSE scanBoxRest(S, disp, boxIdTrimmed, t)

\* scanBox: read is the list getScans() returned, S the store when the
\* handler resumes and writes.
scanBox(read, S, disp, raw, allow, t) ==
  LET boxIdTrimmed == Trim(raw)
      ex == existingScan(read, boxIdTrimmed, t)
  IN  IF ex.id # 0 /\ ~allow
      THEN Result(S, RejectedResponse(ex))
      ELSE IF ex.id # 0 /\ allow
      THEN LET up == updatedScan(ex, t)
           IN  Result(Server(updateScan(S.scans, ex.id, up), S.pending,
                             S.counts, S.nextId),
                      AcceptedResponse(up))
      ELSE scanBoxRest(S, disp, boxIdTrimmed, t)

\* Variant: the store's answer is not looked at.
deleteScan_alwaysOk(S, scanId) ==
  Result(storeDeleteScan(S, scanId), DeletedResponse)

\* Variant: the test of the store's answer is negated.
deleteScan_negated(S, scanId) ==
  LET success == storeHasScan(S.scans, scanId)
  IN  IF ~success
      THEN Result(storeDeleteScan(S, scanId), DeletedResponse)
      ELSE Result(storeDeleteScan(S, scanId), NotFoundResponse)

\* deleteScan: the store's deleteScan(scanId) decides between 200 and 404.
deleteScan(S, scanId) ==
  LET success == storeHasScan(S.scans, scanId)
  IN  IF success
      THEN Result(storeDeleteScan(S, scanId), DeletedResponse)
      ELSE Result(S, NotFoundResponse)

\* getScansWithDuplicates: every record with isDuplicate and duplicateCount
\* recomputed from the number of same-box same-day records.
getScansWithDuplicates(sc) ==
  [i \in 1..Len(sc) |->
     LET sameDayScans ==
           SelectSeq(sc, LAMBDA s : s.boxId = sc[i].boxId
                        /\ toDateString(s.timestamp) = toDateString(sc[i].timestamp))
     IN  [sc[i] EXCEPT !.isDuplicate = Len(sameDayScans) > 1,
                       !.duplicateCount = Len(sameDayScans)]]

\* getDestinationCounts and getPendingScans, as the client reads them.
getDestinationCounts(cnt) == cnt
getPendingScans(pe) == [count |-> Len(pe)]

-----------------------------------------------------------------------------
(* The client: ScanInterface.jsx and App.jsx *)

\* Variant: the identifier is tested without trimming.
ScanInterfaceAccepts_noTrim(raw) == raw # <<>>

\* ScanInterface.handleScan: if (!boxId.trim()) { showStatus(...); return; }
ScanInterfaceAccepts(raw) == Trim(raw) # <<>>

Status(message, type) == [message |-> message, type |-> type]

\* ScanInterface.handleScan: the status line shown for a result.
statusAfter(result) ==
  IF result.success
  THEN IF result.isPending THEN Status("server", "warning")
       ELSE IF result.isDuplicate THEN Status("server", "duplicate")
       ELSE Status("recorded", "success")
  ELSE Status("server", IF result.isDuplicate THEN "duplicate" ELSE "error")

\* App.handleScan: setScans for a successful result.
appScansAfter(result, prev) ==
  IF result.success
  THEN IF result.isDuplicate
       THEN [i \in 1..Len(prev) |->
               IF prev[i].id = result.row.id THEN result.row ELSE prev[i]]
       ELSE <<result.row>> \o prev
  ELSE prev

\* Variant: the counts of the result are taken without testing for them.
appCountsAfter_unguarded(result, prev) ==
  IF result.success THEN result.counts ELSE prev

\* App.handleScan: if (result.counts) setDestinationCounts(result.counts)
appCountsAfter(result, prev) ==
  IF result.success /\ result.counts # NoCounts THEN result.counts ELSE prev

\* App.handleScan: if (result.isPending) setPendingCount(prev => prev + 1)
appPendingAfter(result, prev) ==
  IF result.isPending THEN prev + 1 ELSE prev

-----------------------------------------------------------------------------
(* A scan that ends in the catch block of scanBox (lines 62-65) *)

\* The store writes of one scan command, in the order they are issued: none
\* for a rejected duplicate, updateScan for an accepted one, and for a new
\* scan addScan followed by the queue or aggregator update.
writesOf(r) ==
  IF r.res.kind = "New" THEN 2
  ELSE IF r.res.kind = "AcceptedDuplicate" THEN 1
  ELSE 0

\* The store when the k+1st write of the command throws a StorageError: the
\* first k writes stay, the catch block answers 500 and undoes nothing.
storeAfterError(S, r, k) ==
  IF k = 0 THEN S
  ELSE Server(r.scans, S.pending, S.counts, r.nextId)

NoAttempt ==
  [active |-> FALSE, raw |-> <<>>, allow |-> FALSE, writes |-> 0,
   once |-> Server(<<>>, <<>>, ZeroCounts, 1)]

-----------------------------------------------------------------------------
(* server/routes/deploy-fix.js *)

\* The files the fixer writes, in the order of its steps: fixDeployment
\* writes the first nine and then creates the directories (step 10);
\* runFromCli goes on with createClientPackageJson and
\* generateDeploymentInstructions.
WriteOrder ==
  << "package.json", "railway.json", "nixpacks.toml", ".railwayignore",
     "server/package.json", "server/server.js", "server/build.js",
     "server/.env", "client/.env", "server/controllers",
     "client/package.json", "DEPLOYMENT_GUIDE.md" >>

DirectoriesStep == 10
LastFixStep == 10
LastStep == 12
Exited == 13

Paths == {WriteOrder[k] : k \in (1..LastStep) \ {DirectoriesStep}}

\* What the file system answers to one call: nothing goes wrong, mkdir
\* fails, or writeFile fails.
IoOutcomes == {"ok", "mkdirFails", "writeFails"}

NoCli ==
  [pc |-> 0, run |-> 0, force |-> FALSE, start |-> [f \in Paths |-> "absent"],
   path |-> "", ret |-> "", fixFailed |-> FALSE, failedAt |-> 0,
   reported |-> FALSE, done |-> FALSE, exit |-> 0 - 1, failures |-> 0]

\* Variant: the test "already && !force" is left out.
writeFileSafe_alwaysWrites(fs, path, force, io) ==
  IF io = "mkdirFails"
  THEN [files |-> fs, ret |-> "throw"]
  ELSE IF io = "writeFails"
       THEN [files |-> fs, ret |-> "throw"]
       ELSE [files |-> [fs EXCEPT ![path] = "template"], ret |-> "true"]

\* writeFileSafe(relPath, content): ensureDir, then skip an existing file
\* unless force, else write; a failed mkdir or writeFile is thrown on.
writeFileSafe(fs, path, force, io) ==
  LET already == fs[path] # "absent"
  IN  IF io = "mkdirFails"
      THEN [files |-> fs, ret |-> "throw"]
      ELSE IF already /\ ~force
      THEN [files |-> fs, ret |-> "false"]
      ELSE IF io = "writeFails"
      THEN [files |-> fs, ret |-> "throw"]
      ELSE [files |-> [fs EXCEPT ![path] = "template"], ret |-> "true"]

\* Where a run goes after a step that threw: fixDeployment's own catch logs
\* the error and returns, so runFromCli continues after it; a throw of the
\* two later creators reaches runFromCli's catch, which exits with 1.
afterThrow(c) ==
  IF c.pc <= LastFixStep
  THEN [c EXCEPT !.pc = LastFixStep + 1, !.fixFailed = TRUE, !.failedAt = c.pc,
                 !.ret = "throw", !.failures = c.failures + 1]
  ELSE [c EXCEPT !.pc = Exited, !.reported = TRUE, !.exit = 1, !.failedAt = c.pc,
                 !.ret = "throw", !.failures = c.failures + 1]

\* Where a run goes after a step that returned: the next step, and after
\* the last one "Done." is printed and the process ends with status 0.
afterReturn(c, ret) ==
  IF c.pc = LastStep
  THEN [c EXCEPT !.pc = Exited, !.done = TRUE, !.exit = 0, !.ret = ret]
  ELSE [c EXCEPT !.pc = c.pc + 1, !.ret = ret]

-----------------------------------------------------------------------------
(* Initial state: an empty store, the App mounted and loadInitialData done *)

\* The scanner: store, clock, App and requests.
InitScanner ==
  /\ scans = <<>>
  /\ pending = <<>>
  /\ dispatch = Manifest
  /\ counts = ZeroCounts
  /\ nextId = 1
  /\ now = 0
  /\ destinationCounts = ZeroCounts
  /\ pendingCount = 0
  /\ clientScans = <<>>
  /\ status = Status("", "")
  /\ lastResult = NoResp
  /\ inflight = [p \in Procs |-> NoReq]
  /\ resp = [p \in Procs |-> NoResp]

\* No processPending request.
InitBatch == calls = [run |-> [p \in Procs |-> NoCall], times |-> [i \in 1..MaxId |-> 0]]

\* No scan command under retry.
InitRetry == attempt = NoAttempt

\* Nothing on its way to the App.
InitNet == net = {}

\* The deployment fixer has not been started.
InitDeployIdle ==
  /\ files = [f \in Paths |-> "absent"]
  /\ cli = NoCli

Init == InitScanner /\ InitBatch /\ InitRetry /\ InitNet /\ InitDeployIdle

\* The bounds of the model, as a guard on a scan request at time t reading read.
WithinBounds(read, raw, allow, t, nid) ==
  LET ex == existingScan(read, Trim(raw), t)
  IN  IF ex.id # 0
      THEN allow => ex.duplicateCount < MaxCount
      ELSE nid <= MaxId

-----------------------------------------------------------------------------
(* Commands, each a whole round trip of one client *)

\* Time passes.
Tick ==
  /\ now < MaxNow
  /\ now' = now + 1
  /\ UNCHANGED <<serverVars, clientVars, lastResult, raceVars>>
  /\ UNCHANGED <<batchVars, retryVars, netVars, deployVars>>

\* ScanInterface.handleScan with an identifier that is empty after trimming.
ScanEmpty(raw) ==
  /\ ~ScanInterfaceAccepts(raw)
  /\ status' = Status("Please scan or enter a Box ID.", "error")
  /\ UNCHANGED <<serverVars, now, destinationCounts, pendingCount, clientScans,
                 lastResult, raceVars>>
  /\ UNCHANGED <<batchVars, retryVars, netVars, deployVars>>

\* ScanInterface.handleScan -> App.handleScan -> POST /scans/scan -> scanBox;
\* allow is the App's allowDuplicate, as the operator's checkbox has set it.
Scan(raw, allow) ==
  /\ ScanInterfaceAccepts(raw)
  /\ WithinBounds(scans, raw, allow, now, nextId)
  /\ LET r == scanBox(scans, Server(scans, pending, counts, nextId), dispatch,
                      raw, allow, now)
     IN  /\ scans' = r.scans
         /\ pending' = r.pending
         /\ counts' = r.counts
         /\ nextId' = r.nextId
         /\ clientScans' = appScansAfter(r.res, clientScans)
         /\ destinationCounts' = appCountsAfter(r.res, destinationCounts)
         /\ pendingCount' = appPendingAfter(r.res, pendingCount)
         /\ status' = statusAfter(r.res)
         /\ lastResult' = r.res
  /\ UNCHANGED <<dispatch, now, raceVars>>
  /\ UNCHANGED <<batchVars, retryVars, netVars, deployVars>>

\* App.handleDeleteScan (confirmed) -> DELETE /scans/:scanId -> deleteScan;
\* on success the list is filtered and loadInitialData refreshes the App.
Delete(scanId) ==
  LET r == deleteScan(Server(scans, pending, counts, nextId), scanId)
  IN  /\ scans' = r.scans
      /\ pending' = r.pending
      /\ counts' = r.counts
      /\ nextId' = r.nextId
      /\ IF r.res.success
         THEN /\ clientScans' = getScansWithDuplicates(r.scans)
              /\ destinationCounts' = getDestinationCounts(r.counts)
              /\ pendingCount' = getPendingScans(r.pending).count
         ELSE UNCHANGED <<clientScans, destinationCounts, pendingCount>>
      /\ lastResult' = r.res
      /\ UNCHANGED <<dispatch, now, status, raceVars>>
      /\ UNCHANGED <<batchVars, retryVars, netVars, deployVars>>

Next ==
  \/ Tick
  \/ \E raw \in RawBoxIds : ScanEmpty(raw)
  \/ \E raw \in RawBoxIds, allow \in BOOLEAN : Scan(raw, allow)
  \/ \E scanId \in 1..MaxId : Delete(scanId)

Spec == Init /\ [][Next]_vars

-----------------------------------------------------------------------------
(* Racing requests: scanBox suspends at "await getScans()" and resumes     *)
(* with the list it read; other requests run in between.                   *)

\* POST /scans/scan arrives; lines 16-20: the handler reads the scans.
ReqBegin(p, raw, allow) ==
  /\ ~inflight[p].busy
  /\ inflight' = [inflight EXCEPT
                    ![p] = [busy |-> TRUE, raw |-> raw, allow |-> allow,
                            read |-> scans]]
  /\ resp' = [resp EXCEPT ![p] = NoResp]
  /\ UNCHANGED <<serverVars, now, clientVars, lastResult>>
  /\ UNCHANGED <<batchVars, retryVars, netVars, deployVars>>

\* Lines 21-57 and the rest: the handler resumes, decides on the list it
\* read, writes to the store as it is now and responds.
ReqFinish(p) ==
  /\ inflight[p].busy
  /\ WithinBounds(inflight[p].read, inflight[p].raw, inflight[p].allow, now, nextId)
  /\ LET r == scanBox(inflight[p].read, Server(scans, pending, counts, nextId),
                      dispatch, inflight[p].raw, inflight[p].allow, now)
     IN  /\ scans' = r.scans
         /\ pending' = r.pending
         /\ counts' = r.counts
         /\ nextId' = r.nextId
         /\ resp' = [resp EXCEPT ![p] = r.res]
  /\ inflight' = [inflight EXCEPT ![p] = NoReq]
  /\ UNCHANGED <<dispatch, now, clientVars, lastResult>>
  /\ UNCHANGED <<batchVars, retryVars, netVars, deployVars>>

NextRace ==
  \/ Tick
  \/ \E p \in Procs, raw \in RaceBoxIds, allow \in BOOLEAN : ReqBegin(p, raw, allow)
  \/ \E p \in Procs : ReqFinish(p)

SpecRace == Init /\ [][NextRace]_vars

-----------------------------------------------------------------------------
(* The pending queue: POST /scans/process-pending and the manifest upload *)

\* POST /scans/upload-dispatch: the DispatchRecord set is replaced.
LoadDispatch(m) ==
  /\ m # dispatch
  /\ dispatch' = m
  /\ UNCHANGED <<scans, pending, counts, nextId, now, clientVars, lastResult, raceVars>>
  /\ UNCHANGED <<batchVars, retryVars, netVars, deployVars>>

\* App.handleProcessPending: pendingCount from the response, then loadInitialData.
handleProcessPendingDone(S) ==
  /\ clientScans' = getScansWithDuplicates(S.scans)
  /\ destinationCounts' = getDestinationCounts(S.counts)
  /\ pendingCount' = getPendingScans(S.pending).count

\* App.handleProcessPending -> POST /scans/process-pending, as one round trip.
ProcessPending ==
  LET S == Server(scans, pending, counts, nextId)
      r == processAll(S, dispatch, pending)
  IN  /\ scans' = r.scans
      /\ pending' = r.pending
      /\ counts' = r.counts
      /\ nextId' = r.nextId
      /\ calls' = [calls EXCEPT
                     !.times = timesAfter(calls.times, S, dispatch, pending),
                     !.run[1] = [NoCall EXCEPT !.outcome = "ok",
                                               !.pendingCount = Len(r.pending)]]
      /\ handleProcessPendingDone(r)
      /\ UNCHANGED <<dispatch, now, status, lastResult, raceVars>>
      /\ UNCHANGED <<retryVars, netVars, deployVars>>

NextPending ==
  \/ Tick
  \/ \E raw \in RaceBoxIds : Scan(raw, FALSE)
  \/ \E m \in Manifests : LoadDispatch(m)
  \/ ProcessPending

SpecPending == Init /\ [][NextPending]_vars

\* POST /scans/process-pending arrives: the call enters and reads the
\* queue, or is rejected while another call runs.
ProcBegin(p) ==
  /\ calls.run[p].pc = "idle"
  /\ calls' = [calls EXCEPT !.run[p] =
                 IF mayEnter(calls.run, p)
                 THEN [NoCall EXCEPT !.pc = "running", !.snapshot = pending]
                 ELSE [NoCall EXCEPT !.outcome = "rejected"]]
  /\ UNCHANGED <<scannerVars, retryVars, netVars, deployVars>>

\* The call reconciles the entries it read, writes and responds; the App
\* takes the count and reloads.
ProcFinish(p) ==
  /\ calls.run[p].pc = "running"
  /\ LET S == Server(scans, pending, counts, nextId)
         r == processAll(S, dispatch, calls.run[p].snapshot)
     IN  /\ scans' = r.scans
         /\ pending' = r.pending
         /\ counts' = r.counts
         /\ nextId' = r.nextId
         /\ calls' = [calls EXCEPT
                        !.times = timesAfter(calls.times, S, dispatch,
                                             calls.run[p].snapshot),
                        !.run[p] = [NoCall EXCEPT !.outcome = "ok",
                                                  !.pendingCount = Len(r.pending)]]
         /\ handleProcessPendingDone(r)
  /\ UNCHANGED <<dispatch, now, status, lastResult, raceVars>>
  /\ UNCHANGED <<retryVars, netVars, deployVars>>

NextBatch ==
  \/ \E raw \in RaceBoxIds : Scan(raw, FALSE)
  \/ \E m \in Manifests : LoadDispatch(m)
  \/ \E p \in Procs : ProcBegin(p)
  \/ \E p \in Procs : ProcFinish(p)

SpecBatch == Init /\ [][NextBatch]_vars

-----------------------------------------------------------------------------
(* Retrying a failed scan *)

\* POST /scans/scan ends with a StorageError after k writes: the response
\* is 500 and ScanInterface asks the operator to try again.
ScanFails(raw, allow, k) ==
  /\ ~attempt.active
  /\ ScanInterfaceAccepts(raw)
  /\ WithinBounds(scans, raw, allow, now, nextId)
  /\ LET S == Server(scans, pending, counts, nextId)
         r == scanBox(scans, S, dispatch, raw, allow, now)
         e == storeAfterError(S, r, k)
     IN  /\ r.res.kind # "Validation"
         /\ k = 0 \/ k < writesOf(r)
         /\ scans' = e.scans
         /\ pending' = e.pending
         /\ counts' = e.counts
         /\ nextId' = e.nextId
         /\ attempt' = [active |-> TRUE, raw |-> raw, allow |-> allow, writes |-> k,
                        once |-> Server(r.scans, r.pending, r.counts, r.nextId)]
  /\ status' = Status("Error processing scan. Please try again.", "error")
  /\ UNCHANGED <<dispatch, now, destinationCounts, pendingCount, clientScans,
                 lastResult, raceVars>>
  /\ UNCHANGED <<batchVars, netVars, deployVars>>

\* The operator re-issues the same command on the same day.
Retry ==
  /\ attempt.active
  /\ WithinBounds(scans, attempt.raw, attempt.allow, now, nextId)
  /\ LET r == scanBox(scans, Server(scans, pending, counts, nextId), dispatch,
                      attempt.raw, attempt.allow, now)
     IN  /\ scans' = r.scans
         /\ pending' = r.pending
         /\ counts' = r.counts
         /\ nextId' = r.nextId
         /\ clientScans' = appScansAfter(r.res, clientScans)
         /\ destinationCounts' = appCountsAfter(r.res, destinationCounts)
         /\ pendingCount' = appPendingAfter(r.res, pendingCount)
         /\ status' = statusAfter(r.res)
         /\ lastResult' = r.res
  /\ attempt' = [attempt EXCEPT !.active = FALSE]
  /\ UNCHANGED <<dispatch, now, raceVars>>
  /\ UNCHANGED <<batchVars, netVars, deployVars>>

\* A scan that succeeds while no failed command awaits its retry.
ScanWhenIdle(raw, allow) == ~attempt.active /\ Scan(raw, allow)

NextRetry ==
  \/ \E raw \in RaceBoxIds, allow \in BOOLEAN : ScanWhenIdle(raw, allow)
  \/ \E raw \in RaceBoxIds, allow \in BOOLEAN, k \in 0..1 : ScanFails(raw, allow, k)
  \/ Retry

SpecRetry == Init /\ [][NextRetry]_vars

-----------------------------------------------------------------------------
(* The App's requests under way: each is sent, handled by the server and   *)
(* received by the App; requests overlap and answers arrive in any order.  *)

\* A request as sent, and as answered by the server.
Req(kind, raw) ==
  [kind |-> kind, raw |-> raw, stage |-> "sent", res |-> NoResp,
   scansData |-> <<>>, countsData |-> NoCounts, count |-> 0 - 1]

Answered(q, res, scansData, countsData, count) ==
  [q EXCEPT !.stage = "answered", !.res = res, !.scansData = scansData,
            !.countsData = countsData, !.count = count]

\* ScanInterface.handleScan -> App.handleScan: POST /scans/scan is sent.
ClientScan(raw) ==
  /\ ScanInterfaceAccepts(raw)
  /\ Cardinality(net) < MaxInFlight
  /\ net' = net \cup {Req("scan", raw)}
  /\ UNCHANGED <<scannerVars, batchVars, retryVars, deployVars>>

\* App.loadInitialData: the three GET requests are sent.
ClientLoad ==
  /\ Cardinality(net) < MaxInFlight
  /\ net' = net \cup {Req("load", <<>>)}
  /\ UNCHANGED <<scannerVars, batchVars, retryVars, deployVars>>

\* App.handleProcessPending: POST /scans/process-pending is sent.
ClientProcess ==
  /\ Cardinality(net) < MaxInFlight
  /\ net' = net \cup {Req("process", <<>>)}
  /\ UNCHANGED <<scannerVars, batchVars, retryVars, deployVars>>

\* The server runs scanBox for a request and answers.
ServerScan ==
  \E q \in net :
    /\ q.stage = "sent" /\ q.kind = "scan"
    /\ WithinBounds(scans, q.raw, FALSE, now, nextId)
    /\ LET r == scanBox(scans, Server(scans, pending, counts, nextId), dispatch,
                        q.raw, FALSE, now)
       IN  /\ scans' = r.scans
           /\ pending' = r.pending
           /\ counts' = r.counts
           /\ nextId' = r.nextId
           /\ net' = (net \ {q}) \cup {Answered(q, r.res, <<>>, NoCounts, 0 - 1)}
    /\ UNCHANGED <<dispatch, now, clientVars, lastResult, raceVars>>
    /\ UNCHANGED <<batchVars, retryVars, deployVars>>

\* The server answers GET /scans/history, /scans/counts and /scans/pending.
ServerLoad ==
  \E q \in net :
    /\ q.stage = "sent" /\ q.kind = "load"
    /\ net' = (net \ {q}) \cup
                {Answered(q, NoResp, getScansWithDuplicates(scans),
                          getDestinationCounts(counts), getPendingScans(pending).count)}
    /\ UNCHANGED <<scannerVars, batchVars, retryVars, deployVars>>

\* The server runs processPendingScans and answers with the pending count.
ServerProcess ==
  \E q \in net :
    /\ q.stage = "sent" /\ q.kind = "process"
    /\ LET r == processAll(Server(scans, pending, counts, nextId), dispatch, pending)
       IN  /\ scans' = r.scans
           /\ pending' = r.pending
           /\ counts' = r.counts
           /\ nextId' = r.nextId
           /\ net' = (net \ {q}) \cup {Answered(q, NoResp, <<>>, NoCounts, Len(r.pending))}
    /\ UNCHANGED <<dispatch, now, clientVars, lastResult, raceVars>>
    /\ UNCHANGED <<batchVars, retryVars, deployVars>>

\* App.handleScan resumes with the result (lines 53-71).
ReceiveScan ==
  \E q \in net :
    /\ q.stage = "answered" /\ q.kind = "scan"
    /\ clientScans' = appScansAfter(q.res, clientScans)
    /\ destinationCounts' = appCountsAfter(q.res, destinationCounts)
    /\ pendingCount' = appPendingAfter(q.res, pendingCount)
    /\ status' = statusAfter(q.res)
    /\ lastResult' = q.res
    /\ net' = net \ {q}
    /\ UNCHANGED <<serverVars, now, raceVars, batchVars, retryVars, deployVars>>

\* App.loadInitialData resumes with the three answers (lines 42-44).
ReceiveLoad ==
  \E q \in net :
    /\ q.stage = "answered" /\ q.kind = "load"
    /\ clientScans' = q.scansData
    /\ destinationCounts' = q.countsData
    /\ pendingCount' = q.count
    /\ net' = net \ {q}
    /\ UNCHANGED <<serverVars, now, status, lastResult, raceVars>>
    /\ UNCHANGED <<batchVars, retryVars, deployVars>>

\* App.handleProcessPending resumes: the count of the answer is set and
\* loadInitialData is started (lines 95-96).
ReceiveProcess ==
  \E q \in net :
    /\ q.stage = "answered" /\ q.kind = "process"
    /\ pendingCount' = q.count
    /\ net' = (net \ {q}) \cup {Req("load", <<>>)}
    /\ UNCHANGED <<serverVars, now, destinationCounts, clientScans, status,
                   lastResult, raceVars>>
    /\ UNCHANGED <<batchVars, retryVars, deployVars>>

NextClient ==
  \/ \E raw \in RaceBoxIds : ClientScan(raw)
  \/ ClientLoad
  \/ ClientProcess
  \/ \E m \in Manifests : LoadDispatch(m)
  \/ ServerScan
  \/ ServerLoad
  \/ ServerProcess
  \/ ReceiveScan
  \/ ReceiveLoad
  \/ ReceiveProcess

SpecClient == Init /\ [][NextClient]_vars

-----------------------------------------------------------------------------
(* Runs of the deployment fixer *)

\* The files found under the root directory before the first run.
InitialFiles ==
  { [f \in Paths |-> "absent"],
    [f \in Paths |-> IF f = "package.json" THEN "user" ELSE "absent"],
    [f \in Paths |-> IF f \in {"server/server.js", "client/package.json"}
                      THEN "user" ELSE "absent"],
    [f \in Paths |-> "user"] }

InitDeploy ==
  /\ InitScanner /\ InitBatch /\ InitRetry /\ InitNet
  /\ files \in InitialFiles
  /\ cli = NoCli

\* node server/routes/deploy-fix.js --run [--force]
StartCli(force) ==
  /\ cli.pc \in {0, Exited}
  /\ cli.run < MaxRuns
  /\ cli' = [NoCli EXCEPT !.pc = 1, !.run = cli.run + 1, !.force = force,
                          !.start = files, !.failures = cli.failures]
  /\ UNCHANGED <<files, scannerVars, batchVars, retryVars, netVars>>

\* node server/routes/deploy-fix.js without --run: the usage text is printed.
CliUsage ==
  /\ cli.pc \in {0, Exited}
  /\ cli.run < MaxRuns
  /\ cli' = [NoCli EXCEPT !.pc = Exited, !.run = cli.run + 1, !.start = files,
                          !.exit = 0, !.failures = cli.failures]
  /\ UNCHANGED <<files, scannerVars, batchVars, retryVars, netVars>>

\* One creator of a file: createRootPackageJson ... generateDeploymentInstructions.
WriteStep(io) ==
  /\ cli.pc \in (1..LastStep) \ {DirectoriesStep}
  /\ io # "ok" => cli.failures < MaxFailures
  /\ io = "mkdirFails" => files[WriteOrder[cli.pc]] = "absent"
  /\ LET r == writeFileSafe(files, WriteOrder[cli.pc], cli.force, io)
         c == [cli EXCEPT !.path = WriteOrder[cli.pc]]
     IN  /\ files' = r.files
         /\ cli' = IF r.ret = "throw" THEN afterThrow(c) ELSE afterReturn(c, r.ret)
  /\ UNCHANGED <<scannerVars, batchVars, retryVars, netVars>>

\* createDirectories: exists / ensureDir for each directory; no file is written.
DirectoriesStepRuns(io) ==
  /\ cli.pc = DirectoriesStep
  /\ io \in {"ok", "mkdirFails"}
  /\ io # "ok" => cli.failures < MaxFailures
  /\ LET c == [cli EXCEPT !.path = WriteOrder[cli.pc]]
     IN  cli' = IF io = "ok" THEN afterReturn(c, "") ELSE afterThrow(c)
  /\ UNCHANGED <<files, scannerVars, batchVars, retryVars, netVars>>

NextDeploy ==
  \/ \E force \in BOOLEAN : StartCli(force)
  \/ CliUsage
  \/ \E io \in IoOutcomes : WriteStep(io)
  \/ \E io \in IoOutcomes : DirectoriesStepRuns(io)

SpecDeploy == InitDeploy /\ [][NextDeploy]_vars

-----------------------------------------------------------------------------
(* Vocabulary of the properties, stated apart from the code's operators *)

BoxIds == { <<"A">>, <<"B">> }
Pads == { <<>>, <<" ">> }

\* raw is the identifier b with blanks around it.
Denotes(raw, b) == \E l \in Pads, r \in Pads : raw = l \o b \o r

\* raw holds nothing but blanks.
Blank(raw) == \A i \in 1..Len(raw) : raw[i] = " "

\* The calendar day of a tick.
DayOf(t) ==
  CHOOSE d \in 0..MaxNow : d * TicksPerDay <= t /\ t < (d + 1) * TicksPerDay

\* Positions of the records of box b whose timestamp falls on the day of t.
HeldOn(sc, b, t) ==
  {i \in 1..Len(sc) : sc[i].boxId = b /\ DayOf(sc[i].timestamp) = DayOf(t)}

\* The number of finalized records of destination d.
CountOf(sc, d) ==
  Cardinality({i \in 1..Len(sc) : sc[i].finalStatus # "PENDING" /\ sc[i].destination = d})

\* The step is a scan command of the client with identifier raw.
ScanCommand(raw) == ScanEmpty(raw) \/ \E allow \in BOOLEAN : Scan(raw, allow)

-----------------------------------------------------------------------------
(* C1 *)

\* C1: for every box identifier and calendar day the record store holds at
\* most one ScanRecord of that box with a timestamp on that day, whatever
\* scans (duplicates allowed or not) and deletes were run.
C1_OnePerBoxAndDay ==
  \A i \in 1..Len(scans), j \in 1..Len(scans) :
    (i # j /\ scans[i].boxId = scans[j].boxId)
      => DayOf(scans[i].timestamp) # DayOf(scans[j].timestamp)

\* A box held on two days, one of the records rescanned as a duplicate.
C1_Witness ==
  /\ Len(scans) = 2
  /\ scans[1].boxId = scans[2].boxId
  /\ DayOf(scans[1].timestamp) # DayOf(scans[2].timestamp)
  /\ \E i \in 1..2 : scans[i].duplicateCount = 2

-----------------------------------------------------------------------------
(* C2 *)

\* C2: two scan requests for one box on one day, interleaved between reading
\* the scans and writing, are never both answered New and never leave two
\* records of that box on that day.
C2_AtMostOneWinner ==
  /\ \A i \in 1..Len(scans), j \in 1..Len(scans) :
       (i # j /\ scans[i].boxId = scans[j].boxId)
         => DayOf(scans[i].timestamp) # DayOf(scans[j].timestamp)
  /\ ~ /\ resp[1].kind = "New"
       /\ resp[2].kind = "New"
       /\ resp[1].row.boxId = resp[2].row.boxId
       /\ DayOf(resp[1].row.timestamp) = DayOf(resp[2].row.timestamp)

-----------------------------------------------------------------------------
(* C3 *)

\* C3: a scan of a box with no record on the current day (none at all, or
\* only records of other days) appends exactly one record with
\* isDuplicate = FALSE and duplicateCount = 1, and answers New with it.
C3_NewScanCreatesOne ==
  [][ \A raw \in RawBoxIds, b \in BoxIds, allow \in BOOLEAN :
        (Denotes(raw, b) /\ Scan(raw, allow) /\ HeldOn(scans, b, now) = {})
          => /\ Len(scans') = Len(scans) + 1
             /\ SubSeq(scans', 1, Len(scans)) = scans
             /\ scans'[Len(scans')].boxId = b
             /\ scans'[Len(scans')].timestamp = now
             /\ scans'[Len(scans')].isDuplicate = FALSE
             /\ scans'[Len(scans')].duplicateCount = 1
             /\ \A i \in 1..Len(scans) : scans[i].id # scans'[Len(scans')].id
             /\ lastResult'.kind = "New"
             /\ lastResult'.success
             /\ lastResult'.row = scans'[Len(scans')] ]_vars

\* A box scanned anew on a day after a day on which it was already recorded.
C3_Witness ==
  /\ lastResult.kind = "New"
  /\ Len(scans) = 2
  /\ scans[1].boxId = scans[2].boxId
  /\ lastResult.row = scans[2]

-----------------------------------------------------------------------------
(* C4 *)

\* C4: with allowDuplicate off, a scan of a box that has a record on the
\* current day answers RejectedDuplicate with that record and changes
\* nothing in the store: no record added, no field of any record touched.
C4_RejectedChangesNothing ==
  [][ \A raw \in RawBoxIds, b \in BoxIds :
        (Denotes(raw, b) /\ Scan(raw, FALSE) /\ HeldOn(scans, b, now) # {})
          => /\ scans' = scans
             /\ pending' = pending
             /\ counts' = counts
             /\ lastResult'.kind = "RejectedDuplicate"
             /\ ~lastResult'.success
             /\ lastResult'.isDuplicate
             /\ \E i \in HeldOn(scans, b, now) : lastResult'.duplicateData = scans[i] ]_vars

\* A first scan rejected on its rescan: the record still counts 1.
C4_Witness ==
  /\ lastResult.kind = "RejectedDuplicate"
  /\ lastResult.duplicateData.duplicateCount = 1
  /\ \E i \in 1..Len(scans) : scans[i] = lastResult.duplicateData

-----------------------------------------------------------------------------
(* C5 *)

\* Every record counts at least 1 and is flagged a duplicate exactly when it
\* counts more than 1.
C5_CountsFromOne ==
  \A i \in 1..Len(scans) :
    /\ scans[i].duplicateCount >= 1
    /\ scans[i].isDuplicate <=> scans[i].duplicateCount > 1

\* C5: with allowDuplicate on, a scan of a box that has a record on the
\* current day sets isDuplicate on that record, raises its duplicateCount by
\* exactly one, refreshes lastScanned, adds no record and answers
\* AcceptedDuplicate with the updated record; counts start at 1, so a record
\* counts 1 plus its accepted rescans.
C5_AcceptedRaisesByOne ==
  /\ []C5_CountsFromOne
  /\ [][ \A raw \in RawBoxIds, b \in BoxIds :
           (Denotes(raw, b) /\ Scan(raw, TRUE) /\ HeldOn(scans, b, now) # {})
             => \E i \in HeldOn(scans, b, now) :
                  /\ Len(scans') = Len(scans)
                  /\ \A j \in 1..Len(scans) : j # i => scans'[j] = scans[j]
                  /\ scans'[i] = [scans[i] EXCEPT
                                    !.isDuplicate = TRUE,
                                    !.duplicateCount = scans[i].duplicateCount + 1,
                                    !.lastScanned = now]
                  /\ lastResult'.kind = "AcceptedDuplicate"
                  /\ lastResult'.success
                  /\ lastResult'.row = scans'[i] ]_vars

\* A record accepted as a duplicate after its first scan: it counts 2.
C5_Witness ==
  /\ lastResult.kind = "AcceptedDuplicate"
  /\ lastResult.row.duplicateCount = 2
  /\ lastResult.row.lastScanned > lastResult.row.timestamp
  /\ \E i \in 1..Len(scans) : scans[i] = lastResult.row

-----------------------------------------------------------------------------
(* C6 *)

\* C6: a scan command whose identifier is empty or blank fails with the
\* validation error shown to the operator and creates or changes no
\* ScanRecord, pending entry or destination count.
C6_BlankIsRefused ==
  [][ \A raw \in RawBoxIds :
        (Blank(raw) /\ ScanCommand(raw))
          => /\ status' = [message |-> "Please scan or enter a Box ID.", type |-> "error"]
             /\ scans' = scans
             /\ pending' = pending
             /\ counts' = counts
             /\ nextId' = nextId
             /\ destinationCounts' = destinationCounts
             /\ pendingCount' = pendingCount
             /\ clientScans' = clientScans ]_vars

\* The validation error is on the status line while records are held.
C6_Witness ==
  /\ status.type = "error"
  /\ status.message = "Please scan or enter a Box ID."
  /\ Len(scans) > 0
  /\ Len(pending) > 0

-----------------------------------------------------------------------------
(* C7 *)

-----------------------------------------------------------------------------
(* C8 *)

\* C8: the aggregator's incrementally kept counts, and the snapshot of them
\* the client holds, equal a recount of the stored finalized records per
\* destination.
C8_CountsEqualRecount ==
  \A d \in Dests :
    /\ counts[d] = CountOf(scans, d)
    /\ destinationCounts[d] = CountOf(scans, d)

\* A counted record that was rescanned as an accepted duplicate, beside a
\* pending record that is not counted.
C8_Witness ==
  /\ \E d \in Dests : destinationCounts[d] = 1
  /\ \E i \in 1..Len(scans) : scans[i].finalStatus = "PENDING"
  /\ \E i \in 1..Len(scans) : scans[i].finalStatus = "TRUE" /\ scans[i].duplicateCount > 1

-----------------------------------------------------------------------------
(* C9 *)

\* The response of a scan carries the aggregator's counts for the client.
CarriesCounts(result) == \E d \in Dests : result.counts[d] >= 0

\* C9 as claimed: a scan answered New or AcceptedDuplicate triggers an
\* aggregator update, one answered RejectedDuplicate leaves the counts alone.
C9_AsClaimed ==
  [][ \A raw \in RawBoxIds, allow \in BOOLEAN :
        Scan(raw, allow)
          => /\ lastResult'.kind \in {"New", "AcceptedDuplicate"}
                  => CarriesCounts(lastResult')
             /\ lastResult'.kind = "RejectedDuplicate"
                  => (counts' = counts /\ destinationCounts' = destinationCounts) ]_vars

\* C9 as amended: a scan answered New triggers an aggregator update (the
\* counts are applied and sent to the client, the destination of a finalized
\* new record counting one more); a scan answered AcceptedDuplicate or
\* RejectedDuplicate triggers none and leaves the counts as they were.
C9_OnlyNewUpdatesCounts ==
  [][ \A raw \in RawBoxIds, allow \in BOOLEAN :
        Scan(raw, allow)
          => /\ lastResult'.kind = "New"
                  => /\ CarriesCounts(lastResult')
                     /\ lastResult'.counts = counts'
                     /\ destinationCounts' = counts'
                     /\ \A d \in Dests :
                          counts'[d] = counts[d] +
                            (IF lastResult'.row.finalStatus # "PENDING"
                                /\ lastResult'.row.destination = d THEN 1 ELSE 0)
             /\ lastResult'.kind \in {"AcceptedDuplicate", "RejectedDuplicate"}
                  => /\ ~CarriesCounts(lastResult')
                     /\ counts' = counts
                     /\ destinationCounts' = destinationCounts ]_vars

\* An accepted duplicate of a counted record.
C9_Witness ==
  /\ lastResult.kind = "AcceptedDuplicate"
  /\ lastResult.row.finalStatus = "TRUE"
  /\ counts[lastResult.row.destination] = 1

-----------------------------------------------------------------------------
(* C10 *)

-----------------------------------------------------------------------------
(* C15 *)

\* C15: when scans with allowDuplicate on race for a box that has a record
\* today, no increment is lost: two requests answered AcceptedDuplicate for
\* one record report different counts, and the record counts one more for
\* each of them.
C15_NoLostIncrement ==
  \A p \in Procs, q \in Procs :
    ( /\ p # q
      /\ resp[p].kind = "AcceptedDuplicate"
      /\ resp[q].kind = "AcceptedDuplicate"
      /\ resp[p].row.id = resp[q].row.id )
      => /\ resp[p].row.duplicateCount # resp[q].row.duplicateCount
         /\ \A i \in 1..Len(scans) :
              scans[i].id = resp[p].row.id => scans[i].duplicateCount >= 3

-----------------------------------------------------------------------------
(* C16 *)

\* C16: the history endpoint lists every stored record with the isDuplicate
\* and duplicateCount the store holds for it.
C16_HistoryMatchesStore ==
  LET history == getScansWithDuplicates(scans)
  IN  /\ Len(history) = Len(scans)
      /\ \A i \in 1..Len(scans) :
           /\ history[i].id = scans[i].id
           /\ history[i].isDuplicate = scans[i].isDuplicate
           /\ history[i].duplicateCount = scans[i].duplicateCount

-----------------------------------------------------------------------------
(* C14 *)

Exists(fs, f) == fs[f] # "absent"
AllExist(fs) == \A f \in Paths : Exists(fs, f)

\* C14: writeFileSafe leaves an existing file as it is when force is off (it
\* skips the write and returns false); it returns true only when the file was
\* absent or force is on, and then the file holds the new content and no
\* other file changed.  A run that printed "Done." with no failure leaves
\* every file in place, and a run without --force over a complete tree
\* modifies no file.
C14_ExistingFileIsKept ==
  /\ [][ \A io \in IoOutcomes :
           WriteStep(io) =>
             LET f == WriteOrder[cli.pc]
             IN  /\ (Exists(files, f) /\ ~cli.force)
                      => (files' = files /\ cli'.ret = "false")
                 /\ cli'.ret = "true"
                      => /\ ~Exists(files, f) \/ cli.force
                         /\ files'[f] = "template"
                         /\ \A g \in Paths \ {f} : files'[g] = files[g]
                 /\ cli'.ret # "true" => files' = files ]_vars
  /\ []((cli.pc = Exited /\ cli.done /\ ~cli.fixFailed) => AllExist(files))
  /\ [][ (AllExist(files) /\ ~cli'.force) => files' = files ]_vars

\* A second run without --force, over the tree the first run created, has
\* skipped its last file and ended with every file as it found it.
C14_Witness ==
  /\ cli.run = 2 /\ ~cli.force /\ cli.pc = Exited /\ cli.done
  /\ cli.ret = "false"
  /\ \A f \in Paths : cli.start[f] = "template"
  /\ files = cli.start

-----------------------------------------------------------------------------
(* C18 *)

\* C18: once a file-creation step of fixDeployment has thrown, the run has
\* reported the failure and exited with status 1, without a later creation
\* step and without printing "Done.".
C18_FailureStopsTheRun ==
  cli.fixFailed =>
    /\ cli.pc = Exited
    /\ cli.reported
    /\ cli.exit = 1
    /\ ~cli.done

-----------------------------------------------------------------------------
(* C11 *)

Matches(disp, e) == \E b \in DOMAIN disp : b = e.boxId /\ disp[b] \in Dests
Queued(pe, e) == \E i \in 1..Len(pe) : pe[i] = e

\* C11: a processPending call removes from the queue exactly the entries
\* whose box identifier matches a DispatchRecord: each of them is then a
\* finalized record of the main set with the manifest's destination and is
\* counted once by the aggregator, every other entry is still queued, and the
\* App's badge shows the new queue length.  In every step an entry without a
\* match stays queued, so it waits until a manifest with its box is loaded
\* and leaves with the next call.
C11_PendingUntilMatched ==
  /\ [][ ProcessPending =>
           /\ \A i \in 1..Len(pending) :
                LET e == pending[i]
                IN  IF Matches(dispatch, e)
                    THEN /\ ~Queued(pending', e)
                         /\ \E j \in 1..Len(scans') :
                              /\ scans'[j].id = e.id
                              /\ scans'[j].finalStatus = "TRUE"
                              /\ scans'[j].destination = dispatch[e.boxId]
                    ELSE Queued(pending', e)
           /\ \A i \in 1..Len(pending') : Queued(pending, pending'[i])
           /\ \A d \in Dests :
                counts'[d] = counts[d]
                  + Cardinality({i \in 1..Len(pending) :
                                   /\ Matches(dispatch, pending[i])
                                   /\ dispatch[pending[i].boxId] = d})
           /\ pendingCount' = Len(pending') ]_vars
  /\ [][ \A i \in 1..Len(pending) :
           ~Matches(dispatch, pending[i]) => Queued(pending', pending[i]) ]_vars

\* Box B was queued, its manifest came later, and a call has finalized it.
C11_Witness ==
  /\ pending = <<>>
  /\ calls.run[1].outcome = "ok"
  /\ \E i \in 1..Len(scans) :
       /\ scans[i].boxId = <<"B">>
       /\ scans[i].finalStatus = "TRUE"
       /\ calls.times[scans[i].id] = 1
       /\ counts[scans[i].destination] = 1

-----------------------------------------------------------------------------
(* C12 *)

Running == {p \in Procs : calls.run[p].pc = "running"}

\* C12: at most one processAll is in progress; a call that arrives while
\* another runs does not enter; no entry is finalized twice, so the
\* aggregator holds each finalized record once.
C12_OneProcessAllAtATime ==
  /\ [](Cardinality(Running) <= 1)
  /\ [](\A i \in DOMAIN calls.times : calls.times[i] <= 1)
  /\ [](\A d \in Dests : counts[d] = CountOf(scans, d))
  /\ [][ \A p \in Procs :
           (ProcBegin(p) /\ Running # {}) => calls'.run[p].pc # "running" ]_vars

\* One call was turned away while the other ran and then finalized a record.
C12_Witness ==
  /\ calls.run[1].outcome = "rejected"
  /\ calls.run[2].outcome = "ok"
  /\ \E i \in DOMAIN calls.times : calls.times[i] = 1

-----------------------------------------------------------------------------
(* C13 *)

-----------------------------------------------------------------------------
(* C17 *)

\* C17: whenever no request of the App is under way, the App's pendingCount
\* is the length of the server's pending queue.
C17_BadgeMatchesQueue ==
  net = {} => pendingCount = Len(pending)


====
